---- MODULE Spec2Model ----
(***************************************************************************)
(* Slotted heap page of crustydb's heapstore (page.rs, heap_page.rs).      *)
(* The page is its raw byte buffer; header fields and slot entries are     *)
(* little-endian two-byte integers read from and written to that buffer.   *)
(***************************************************************************)
EXTENDS Integers, Sequences, FiniteSets, TLC

\* ---------------------------------------------------------------- bounds
\* common::PAGE_SIZE is 4096 in the crate; the buffer is scaled down here.
PAGE_SIZE == 30
\* longest payload an insert is tried with
MaxLen == 6
\* number of add_value / delete_value calls made on one page
MaxCalls == 5
\* calls made on a page whose id is one of several
MaxIdCalls == 3
\* the longer runs of calls with short payloads: the longest payload and the
\* number of calls
MaxShortLen == 1
MaxShortCalls == 6

\* ------------------------------------------------------ program constants
PAGE_META_NUM_SLOTS_OFFSET == 2
PAGE_META_FREE_START_OFFSET == 4
FIXED_PAGE_META_SIZE == 8
BYTES_PER_SLOT_META == 6
SLOT_OFFSET_OFFSET == 0
SLOT_LENGTH_OFFSET == 2
SLOT_IN_USE_OFFSET == 4
SLOT_IN_USE_VALID == 1
SLOT_IN_USE_FREE == 0
INITIAL_NUM_SLOTS == 0
INITIAL_FREE_START == 8

\* ------------------------------------------------------------ input sets
\* page ids a page is constructed with (513 = 0x0201 uses both id bytes)
PageIds == {513}
\* page ids of the pages that are only followed for MaxIdCalls calls: the ids
\* of the test hs_page_create_basic and the largest u16
NewPageIds == {0, 1, 1023, 65535}
\* the largest directory a page of PAGE_SIZE bytes can hold
MaxSlots == (PAGE_SIZE - FIXED_PAGE_META_SIZE) \div BYTES_PER_SLOT_META
\* slot ids a get_value / delete_value call may name; MaxSlots is always out
\* of range
SlotIds == 0..MaxSlots
\* the payload of length len handed to the call number n on a page: byte i is
\* non-zero and tells the call and the position
Payload(n, len) == [i \in 1..len |-> (16 * (n + 1) + i) % 256]
\* slot ids delete_value is called with: every slot of the directory and the
\* first id past it
DeleteIds(d) == 0..(d[2] + 256 * d[3])
\* the payloads the next add_value call may be given
Payloads(n) == {Payload(n, l) : l \in 0..MaxLen}
\* the short payloads of the longer runs
ShortPayloads(n) == {Payload(n, l) : l \in 0..MaxShortLen}
\* the payloads around the two size limits of add_value: the largest one an
\* empty page takes and the next, a page-sized one and the first oversize one
BigPayloads(n) ==
    {Payload(n, l) : l \in {PAGE_SIZE - 14, PAGE_SIZE - 13,
                            PAGE_SIZE, PAGE_SIZE + 1}}

\* ------------------------------------------------------------ Option<T>
None == <<>>
Some(x) == <<x>>
IsSome(o) == Len(o) = 1
Unwrap(o) == o[1]

\* --------------------------------------------------- integer primitives
Min(a, b) == IF a < b THEN a ELSE b
\* usize::saturating_sub
SaturatingSub(a, b) == IF a >= b THEN a - b ELSE 0
\* `x as u16`
AsU16(x) == x % 65536
\* u16::from_le_bytes(data[at..at + 2])
FromLeBytes(d, at) == d[at] + 256 * d[at + 1]
\* data[at..at + 2].copy_from_slice(&v.to_le_bytes()), v a u16
CopyLeBytes(d, at, v) ==
    [d EXCEPT ![at] = v % 256, ![at + 1] = v \div 256]
\* data.copy_within(src..src + len, dest): memmove, correct under overlap
CopyWithin(d, src, len, dest) ==
    [i \in DOMAIN d |->
        IF i >= dest /\ i < dest + len THEN d[src + (i - dest)] ELSE d[i]]
\* data[at..at + bytes.len()].clone_from_slice(bytes)
CloneFromSlice(d, at, bytes) ==
    [i \in DOMAIN d |->
        IF i >= at /\ i < at + Len(bytes) THEN bytes[i - at + 1] ELSE d[i]]
\* data[from..to].fill(v)
Fill(d, from, to, v) ==
    [i \in DOMAIN d |-> IF i >= from /\ i < to THEN v ELSE d[i]]
\* data[from..from + len].to_vec()
ToVec(d, from, len) == [i \in 1..len |-> d[from + i - 1]]

\* ------------------------------------------------------------ page.rs
\* mutant: only the low byte of the page id is written
New_LowByte(page_id) ==
    LET zero == [i \in 0..(PAGE_SIZE - 1) |-> 0]
        d1 == CopyLeBytes(zero, 0, page_id % 256)
        d2 == CopyLeBytes(d1, PAGE_META_NUM_SLOTS_OFFSET, INITIAL_NUM_SLOTS)
    IN  CopyLeBytes(d2, PAGE_META_FREE_START_OFFSET, INITIAL_FREE_START)

\* Page::new
New(page_id) ==
    LET zero == [i \in 0..(PAGE_SIZE - 1) |-> 0]
        d1 == CopyLeBytes(zero, 0, AsU16(page_id))
        d2 == CopyLeBytes(d1, PAGE_META_NUM_SLOTS_OFFSET, INITIAL_NUM_SLOTS)
    IN  CopyLeBytes(d2, PAGE_META_FREE_START_OFFSET, INITIAL_FREE_START)

\* Page::get_page_id
GetPageId(d) == FromLeBytes(d, 0)

\* mutant: copies all but the last byte of the buffer
FromBytes_DropLast(bytes) ==
    [data |-> [i \in DOMAIN bytes |->
                  IF i = PAGE_SIZE - 1 THEN 0 ELSE bytes[i]]]

\* Page::from_bytes: the Page that wraps the byte array
FromBytes(bytes) == [data |-> bytes]

\* Page::to_bytes: the byte array of the Page p
ToBytes(p) == p.data

\* <Page as Clone>::clone
Clone(p) == [data |-> p.data]

\* ------------------------------------------- heap_page.rs, private helpers
GetNumSlots(d) == FromLeBytes(d, PAGE_META_NUM_SLOTS_OFFSET)

SetNumSlots(d, n) == CopyLeBytes(d, PAGE_META_NUM_SLOTS_OFFSET, AsU16(n))
\* mutant: returns the stored value without raising it to body_start
GetFreeStart_NoClamp(d) ==
    Min(FromLeBytes(d, PAGE_META_FREE_START_OFFSET), PAGE_SIZE)

GetFreeStart(d) ==
    LET num_slots == GetNumSlots(d)
        body_start == FIXED_PAGE_META_SIZE + num_slots * BYTES_PER_SLOT_META
        stored == FromLeBytes(d, PAGE_META_FREE_START_OFFSET)
        raw == IF stored < body_start THEN body_start ELSE stored
    IN  Min(raw, PAGE_SIZE)

SetFreeStart(d, pos) ==
    CopyLeBytes(d, PAGE_META_FREE_START_OFFSET, AsU16(Min(pos, PAGE_SIZE)))

SlotMetaOffset(slot_id) == FIXED_PAGE_META_SIZE + slot_id * BYTES_PER_SLOT_META

\* Some(<<offset, length>>) or None when slot_id is out of range
GetSlotOffsetLength(d, slot_id) ==
    IF slot_id >= GetNumSlots(d) THEN None
    ELSE LET base == SlotMetaOffset(slot_id)
         IN  Some(<<FromLeBytes(d, base + SLOT_OFFSET_OFFSET),
                    FromLeBytes(d, base + SLOT_LENGTH_OFFSET)>>)

\* Some(in_use) or None when slot_id is out of range
GetSlotInUse(d, slot_id) ==
    IF slot_id >= GetNumSlots(d) THEN None
    ELSE Some(d[SlotMetaOffset(slot_id) + SLOT_IN_USE_OFFSET])

\* mutant: forgets the field offset and writes the first byte of the entry
SetSlotInUse_NoFieldOffset(d, slot_id, in_use) ==
    [d EXCEPT ![SlotMetaOffset(slot_id)] = in_use]

SetSlotInUse(d, slot_id, in_use) ==
    [d EXCEPT ![SlotMetaOffset(slot_id) + SLOT_IN_USE_OFFSET] = in_use]

\* offset and length are u16 already (the callers cast)
WriteSlot(d, slot_id, offset, length, in_use) ==
    LET base == SlotMetaOffset(slot_id)
        d1 == CopyLeBytes(d, base, offset)
        d2 == CopyLeBytes(d1, base + 2, length)
    IN  [d2 EXCEPT ![base + SLOT_IN_USE_OFFSET] = in_use]

\* get_slot_in_use(sid).map_or(false, |u| u == SLOT_IN_USE_VALID)
SlotIsValid(d, slot_id) ==
    LET u == GetSlotInUse(d, slot_id)
    IN  IF IsSome(u) THEN Unwrap(u) = SLOT_IN_USE_VALID ELSE FALSE

\* mutant: compares the flag with the wrong constant, so live slots look free
SlotIsFree_Valid(d, slot_id) ==
    IF slot_id >= GetNumSlots(d) THEN TRUE
    ELSE d[SlotMetaOffset(slot_id) + SLOT_IN_USE_OFFSET] = SLOT_IN_USE_VALID

\* get_slot_in_use(sid).map_or(true, |u| u == SLOT_IN_USE_FREE)
SlotIsFree(d, slot_id) ==
    LET u == GetSlotInUse(d, slot_id)
    IN  IF IsSome(u) THEN Unwrap(u) = SLOT_IN_USE_FREE ELSE TRUE

RECURSIVE FindFrom(_, _, _)
FindFrom(d, slot_id, num_slots) ==
    IF slot_id >= num_slots THEN AsU16(num_slots)
    ELSE IF SlotIsFree(d, AsU16(slot_id)) THEN AsU16(slot_id)
    ELSE FindFrom(d, slot_id + 1, num_slots)

\* mutant: never reuses a freed slot id, always appends
FindLowestFreeSlotId_Append(d) == AsU16(GetNumSlots(d))

FindLowestFreeSlotId(d) == FindFrom(d, 0, GetNumSlots(d))

\* <<slot_id, length>> of every live slot, ascending slot id
RECURSIVE UsedFrom(_, _, _)
UsedFrom(d, i, num_slots) ==
    IF i >= num_slots THEN <<>>
    ELSE LET sid == AsU16(i)
             ol == GetSlotOffsetLength(d, sid)
             rest == UsedFrom(d, i + 1, num_slots)
         IN  IF SlotIsValid(d, sid) /\ IsSome(ol)
             THEN <<(<<sid, Unwrap(ol)[2]>>)>> \o rest
             ELSE rest

\* mutant: forgets the in_use filter and counts freed slots too
IterUsedSlots_All(d) ==
    [i \in 1..GetNumSlots(d) |->
        <<i - 1, FromLeBytes(d, SlotMetaOffset(i - 1) + SLOT_LENGTH_OFFSET)>>]

IterUsedSlots(d) == UsedFrom(d, 0, GetNumSlots(d))

RECURSIVE SumLengths(_)
SumLengths(used) ==
    IF used = <<>> THEN 0 ELSE Head(used)[2] + SumLengths(Tail(used))

\* mutant: the records are sorted by descending offset
RECURSIVE InsertByOffset_Desc(_, _)
InsertByOffset_Desc(x, sorted) ==
    IF sorted = <<>> THEN <<x>>
    ELSE IF x[2] >= Head(sorted)[2] THEN <<x>> \o sorted
    ELSE <<Head(sorted)>> \o InsertByOffset_Desc(x, Tail(sorted))

\* stable insertion of x = <<slot_id, offset, length>> by offset
RECURSIVE InsertByOffset(_, _)
InsertByOffset(x, sorted) ==
    IF sorted = <<>> THEN <<x>>
    ELSE IF x[2] <= Head(sorted)[2] THEN <<x>> \o sorted
    ELSE <<Head(sorted)>> \o InsertByOffset(x, Tail(sorted))

\* used.sort_by_key(|&(_, off, _)| off): stable
RECURSIVE SortByOffset(_)
SortByOffset(used) ==
    IF used = <<>> THEN <<>>
    ELSE InsertByOffset(Head(used), SortByOffset(Tail(used)))

\* <<slot_id, offset, length>> of every live slot, ascending slot id
RECURSIVE CollectUsed(_, _, _)
CollectUsed(d, i, num_slots) ==
    IF i >= num_slots THEN <<>>
    ELSE LET sid == AsU16(i)
             ol == GetSlotOffsetLength(d, sid)
             rest == CollectUsed(d, i + 1, num_slots)
         IN  IF SlotIsValid(d, sid) /\ IsSome(ol)
             THEN <<(<<sid, Unwrap(ol)[1], Unwrap(ol)[2]>>)>> \o rest
             ELSE rest

\* one iteration of the copy loop of compact
CompactStep(d, slot_id, old_offset, length, write_pos) ==
    LET d1 == IF old_offset # write_pos
              THEN CopyWithin(d, old_offset, length, write_pos)
              ELSE d
    IN  WriteSlot(d1, slot_id, AsU16(write_pos), AsU16(length), SLOT_IN_USE_VALID)

\* copy_within(src..src + len, dest) panics when either range leaves the
\* buffer, before it copies anything
CopyWithinPanics(src, len, dest) ==
    src + len > PAGE_SIZE \/ dest + len > PAGE_SIZE

\* write_slot indexes data[base .. base + 5)
WriteSlotPanics(slot_id) == SlotMetaOffset(slot_id) + 5 > PAGE_SIZE

\* the buffer a panicking write_slot leaves: its three writes run in order
\* (offset, length, in_use) and the first one out of bounds panics
WriteSlotUntilPanic(d, slot_id, offset, length) ==
    LET base == SlotMetaOffset(slot_id)
        d1 == IF base + 2 <= PAGE_SIZE THEN CopyLeBytes(d, base, offset)
              ELSE d
    IN  IF base + 4 <= PAGE_SIZE THEN CopyLeBytes(d1, base + 2, length)
        ELSE d1

\* the copy loop of compact and its set_free_start; a panic in an iteration
\* ends the walk there, with the writes of the earlier iterations kept
RECURSIVE CompactWalk(_, _, _)
CompactWalk(d, used, write_pos) ==
    IF used = <<>> THEN SetFreeStart(d, write_pos)
    ELSE LET x == Head(used)
         IN  IF x[2] # write_pos /\ CopyWithinPanics(x[2], x[3], write_pos)
             THEN d
             ELSE IF WriteSlotPanics(x[1])
             THEN WriteSlotUntilPanic(
                      IF x[2] # write_pos
                      THEN CopyWithin(d, x[2], x[3], write_pos) ELSE d,
                      x[1], AsU16(write_pos), AsU16(x[3]))
             ELSE CompactWalk(CompactStep(d, x[1], x[2], x[3], write_pos),
                              Tail(used), write_pos + x[3])

\* TRUE when an index of the copy loop of compact is out of bounds
RECURSIVE CompactWalkPanics(_, _)
CompactWalkPanics(used, write_pos) ==
    IF used = <<>> THEN FALSE
    ELSE LET x == Head(used)
         IN  \/ x[2] # write_pos /\ CopyWithinPanics(x[2], x[3], write_pos)
             \/ WriteSlotPanics(x[1])
             \/ CompactWalkPanics(Tail(used), write_pos + x[3])

\* TRUE when compact panics on d (index out of bounds in copy_within)
CompactPanics(d) ==
    LET num_slots == GetNumSlots(d)
        body_start == FIXED_PAGE_META_SIZE + num_slots * BYTES_PER_SLOT_META
    IN  CompactWalkPanics(SortByOffset(CollectUsed(d, 0, num_slots)), body_start)

\* Page::compact: the buffer when compact returns, or when it panics
Compact(d) ==
    LET num_slots == GetNumSlots(d)
        body_start == FIXED_PAGE_META_SIZE + num_slots * BYTES_PER_SLOT_META
        used == SortByOffset(CollectUsed(d, 0, num_slots))
    IN  CompactWalk(d, used, body_start)

\* the offset-patching loop of shift_body_for_new_slot
RECURSIVE BumpOffsets(_, _, _)
BumpOffsets(d, slot_id, num_slots) ==
    IF slot_id >= num_slots THEN d
    ELSE LET sid == AsU16(slot_id)
             ol == GetSlotOffsetLength(d, sid)
             d1 == IF SlotIsValid(d, sid) /\ IsSome(ol)
                   THEN WriteSlot(d, sid,
                                  AsU16(Unwrap(ol)[1] + BYTES_PER_SLOT_META),
                                  Unwrap(ol)[2], SLOT_IN_USE_VALID)
                   ELSE d
         IN  BumpOffsets(d1, slot_id + 1, num_slots)

\* the body move of shift_body_for_new_slot
ShiftCopy(d, old_body_start, new_body_start, body_len) ==
    IF body_len > 0
    THEN CopyWithin(d, old_body_start,
                    Min(body_len, PAGE_SIZE - new_body_start), new_body_start)
    ELSE d

\* TRUE when shift_body_for_new_slot panics on d: PAGE_SIZE - new_body_start
\* underflows, or data[old_body_start..new_body_start] leaves the buffer
ShiftPanics(d) ==
    FIXED_PAGE_META_SIZE + (GetNumSlots(d) + 1) * BYTES_PER_SLOT_META > PAGE_SIZE

\* Page::shift_body_for_new_slot
ShiftBodyForNewSlot(d) ==
    LET num_slots == GetNumSlots(d)
        old_body_start == FIXED_PAGE_META_SIZE + num_slots * BYTES_PER_SLOT_META
        new_body_start == old_body_start + BYTES_PER_SLOT_META
        free_start == GetFreeStart(d)
        body_len == SaturatingSub(free_start, old_body_start)
        d1 == ShiftCopy(d, old_body_start, new_body_start, body_len)
        d2 == Fill(d1, old_body_start, new_body_start, 0)
        d3 == BumpOffsets(d2, 0, num_slots)
        new_free == Min(free_start + BYTES_PER_SLOT_META, PAGE_SIZE)
    IN  SetFreeStart(d3, new_free)

\* ------------------------------------------ heap_page.rs, impl HeapPage
GetHeaderSize(d) == FIXED_PAGE_META_SIZE + GetNumSlots(d) * BYTES_PER_SLOT_META

GetFreeSpace(d) ==
    LET header_size == GetHeaderSize(d)
        used_bytes == SumLengths(IterUsedSlots(d))
    IN  SaturatingSub(SaturatingSub(PAGE_SIZE, header_size), used_bytes)

\* need_new_slot of add_value
NeedNewSlot(slot_id, num_slots) == slot_id >= num_slots

\* extra_header of add_value
ExtraHeader(need_new_slot) == IF need_new_slot THEN BYTES_PER_SLOT_META ELSE 0

\* mutant: the fit check forgets the new directory entry
NoFit_NoHeader(d, value_len, extra_header) == GetFreeSpace(d) < value_len

\* the fit check of add_value: TRUE when the call returns None
NoFit(d, value_len, extra_header) == GetFreeSpace(d) < value_len + extra_header

\* the compaction trigger of add_value
NeedsCompact(free_start, extra_header, value_len) ==
    SaturatingSub(PAGE_SIZE, free_start + extra_header) < value_len

\* mutant: the directory grows on every insert, reused slot or not
GrowDirectory_Always(d, need_new_slot, num_slots) ==
    SetNumSlots(IF num_slots > 0 THEN ShiftBodyForNewSlot(d) ELSE d,
                num_slots + 1)

\* the directory growth of add_value
GrowDirectory(d, need_new_slot, num_slots) ==
    IF need_new_slot
    THEN SetNumSlots(IF num_slots > 0 THEN ShiftBodyForNewSlot(d) ELSE d,
                     num_slots + 1)
    ELSE d

\* mutant: forgets to advance free_start past the new payload
StoreValue_NoAdvance(d, slot_id, insert_offset, bytes) ==
    WriteSlot(CloneFromSlice(d, insert_offset, bytes), slot_id,
              AsU16(insert_offset), AsU16(Len(bytes)), SLOT_IN_USE_VALID)

\* mutant: the slot entry is written with offset and length swapped
StoreValue_Swapped(d, slot_id, insert_offset, bytes) ==
    LET value_len == Len(bytes)
        d1 == CloneFromSlice(d, insert_offset, bytes)
        d2 == WriteSlot(d1, slot_id, AsU16(value_len), AsU16(insert_offset),
                        SLOT_IN_USE_VALID)
    IN  SetFreeStart(d2, insert_offset + value_len)

\* the payload and slot entry writes of add_value
StoreValue(d, slot_id, insert_offset, bytes) ==
    LET value_len == Len(bytes)
        d1 == CloneFromSlice(d, insert_offset, bytes)
        d2 == WriteSlot(d1, slot_id, AsU16(insert_offset), AsU16(value_len),
                        SLOT_IN_USE_VALID)
    IN  SetFreeStart(d2, insert_offset + value_len)

\* HeapPage::add_value: the page after the call, the returned Option<SlotId>,
\* whether the call ran compact / shift_body_for_new_slot, and whether it
\* panicked (then it returned nothing, and data is the buffer with the writes
\* made before the panic: nothing is rolled back)
AddValue(d, bytes) ==
    LET value_len == Len(bytes)
        slot_id == FindLowestFreeSlotId(d)
        num_slots == GetNumSlots(d)
        need_new_slot == NeedNewSlot(slot_id, num_slots)
        extra_header == ExtraHeader(need_new_slot)
        free_start == GetFreeStart(d)
        compacts == NeedsCompact(free_start, extra_header, value_len)
        shifts == need_new_slot /\ num_slots > 0
        d1 == IF compacts THEN Compact(d) ELSE d
        d2 == GrowDirectory(d1, need_new_slot, num_slots)
        insert_offset == GetFreeStart(d2)
        unchanged == [data |-> d, res |-> None, compacted |-> FALSE,
                      shifted |-> FALSE, panic |-> FALSE]
        \* a panic in compact leaves the slots compact had rewritten; a
        \* panic in shift_body_for_new_slot comes before its first write
        panics == [data |-> d1, res |-> None, compacted |-> compacts,
                   shifted |-> FALSE, panic |-> TRUE]
        \* a panic in the final write_slot comes after the payload copy
        panics_in_store ==
            [data |-> WriteSlotUntilPanic(
                          CloneFromSlice(d2, insert_offset, bytes), slot_id,
                          AsU16(insert_offset), AsU16(value_len)),
             res |-> None, compacted |-> compacts, shifted |-> shifts,
             panic |-> TRUE]
    IN  IF value_len > PAGE_SIZE THEN unchanged
        ELSE IF NoFit(d, value_len, extra_header) THEN unchanged
        ELSE IF compacts /\ CompactPanics(d) THEN panics
        ELSE IF shifts /\ ShiftPanics(d1) THEN panics
        ELSE IF insert_offset + value_len > PAGE_SIZE
             THEN [data |-> d2, res |-> None, compacted |-> compacts,
                   shifted |-> shifts, panic |-> FALSE]
        ELSE IF WriteSlotPanics(slot_id) THEN panics_in_store
        ELSE [data |-> StoreValue(d2, slot_id, insert_offset, bytes),
              res |-> Some(slot_id), compacted |-> compacts,
              shifted |-> shifts, panic |-> FALSE]

\* HeapPage::get_value: Option<Vec<u8>>
GetValue(d, slot_id) ==
    LET u == GetSlotInUse(d, slot_id)
        ol == GetSlotOffsetLength(d, slot_id)
    IN  IF ~IsSome(u) THEN None
        ELSE IF Unwrap(u) # SLOT_IN_USE_VALID THEN None
        ELSE IF ~IsSome(ol) THEN None
        ELSE IF Unwrap(ol)[1] + Unwrap(ol)[2] > PAGE_SIZE THEN None
        ELSE Some(ToVec(d, Unwrap(ol)[1], Unwrap(ol)[2]))

\* mutant: checks the range only, not that the slot is live
DeleteValue_NoLiveCheck(d, slot_id) ==
    IF slot_id >= GetNumSlots(d) THEN [data |-> d, res |-> None]
    ELSE [data |-> [d EXCEPT ![SlotMetaOffset(slot_id) + SLOT_IN_USE_OFFSET]
                               = SLOT_IN_USE_FREE],
          res |-> Some(<<>>)]

\* mutant: the delete also clears the offset and length of the slot entry
DeleteValue_ClearEntry(d, slot_id) ==
    LET u == GetSlotInUse(d, slot_id)
    IN  IF slot_id >= GetNumSlots(d) THEN [data |-> d, res |-> None]
        ELSE IF ~IsSome(u) THEN [data |-> d, res |-> None]
        ELSE IF Unwrap(u) # SLOT_IN_USE_VALID THEN [data |-> d, res |-> None]
        ELSE [data |-> WriteSlot(d, slot_id, 0, 0, SLOT_IN_USE_FREE),
              res |-> Some(<<>>)]

\* HeapPage::delete_value: the page after the call and the returned Option<()>
DeleteValue(d, slot_id) ==
    LET u == GetSlotInUse(d, slot_id)
    IN  IF slot_id >= GetNumSlots(d) THEN [data |-> d, res |-> None]
        ELSE IF ~IsSome(u) THEN [data |-> d, res |-> None]
        ELSE IF Unwrap(u) # SLOT_IN_USE_VALID THEN [data |-> d, res |-> None]
        ELSE [data |-> SetSlotInUse(d, slot_id, SLOT_IN_USE_FREE),
              res |-> Some(<<>>)]

\* ---------------------------------------------------- HeapPageIntoIter
\* <Page as IntoIterator>::into_iter: the iterator's current_slot and
\* num_slots fields (its page field is the page itself)
IntoIter(d) == [current_slot |-> 0, num_slots |-> GetNumSlots(d)]

\* the while loop of next(): from current_slot on, the first slot that
\* get_value reads; the slot after it becomes current_slot
RECURSIVE NextFrom(_, _, _)
NextFrom(d, current_slot, num_slots) ==
    IF current_slot < num_slots
    THEN LET value == GetValue(d, current_slot)
         IN  IF IsSome(value)
             THEN [current_slot |-> AsU16(current_slot + 1),
                   item |-> Some(<<Unwrap(value), current_slot>>)]
             ELSE NextFrom(d, AsU16(current_slot + 1), num_slots)
    ELSE [current_slot |-> current_slot, item |-> None]

\* next() that leaves current_slot where it was
IterNext_NoAdvance(d, it) ==
    LET r == NextFrom(d, it.current_slot, it.num_slots)
    IN  [iter |-> [current_slot |-> it.current_slot, num_slots |-> it.num_slots],
         item |-> r.item]

\* <HeapPageIntoIter as Iterator>::next on the iterator it over page d: the
\* iterator after the call and the returned Option<(Vec<u8>, SlotId)>
IterNext(d, it) ==
    LET r == NextFrom(d, it.current_slot, it.num_slots)
    IN  [iter |-> [current_slot |-> r.current_slot, num_slots |-> it.num_slots],
         item |-> r.item]

\* the items next() returns until its first None
RECURSIVE Drain(_, _)
Drain(d, it) ==
    LET r == IterNext(d, it)
    IN  IF IsSome(r.item) THEN <<Unwrap(r.item)>> \o Drain(d, r.iter)
        ELSE <<>>

\* p.into_iter().collect()
Collect(d) == Drain(d, IntoIter(d))

\* ------------------------------------------------------------ the state
VARIABLES
    data,      \* Page.data, the raw page bytes
    last,      \* the most recent call: its name, its slot id (the argument of
               \* delete_value, the result of add_value), its result and
               \* whether it ran compact / shift_body_for_new_slot
    stored,    \* per slot id, the payload of the latest successful add_value
               \* into it that no delete_value has removed since (else None)
    panicked,  \* TRUE once a call has panicked; the page is then out of use
    calls,     \* number of calls made on the page so far
    added,     \* number of add_value calls that returned Some
    page_id,   \* the argument of Page::new
    iter,      \* the HeapPageIntoIter made of the page, once into_iter has
               \* consumed it: its fields, the items next() has returned,
               \* whether the latest next() returned None and the number of
               \* next() calls made
    loop       \* the delete-until-it-fits loop of hs_page_stress_test, once
               \* entered: its payload, the live records at its start, the
               \* deletions so far and its position (at: "try" before an
               \* add_value, "delete" after one returned None, "done")

vars == <<data, last, stored, panicked, calls, added, page_id, iter, loop>>

\* no iterator: the page has not been consumed
NoIter == [active |-> FALSE, current_slot |-> 0, num_slots |-> 0,
           items |-> <<>>, done |-> FALSE, nexts |-> 0]

\* next() is called at most this many times on one iterator: once more than
\* the MaxSlots + 1 calls that exhaust the fullest directory
MaxNexts == MaxSlots + 2

\* no loop: the page is not in the delete-until-it-fits loop
NoLoop == [active |-> FALSE, bytes |-> <<>>, live |-> 0, deleted |-> 0,
           at |-> "idle"]

\* let p = Page::new(x) for x among the ids
InitOf(ids) ==
    /\ page_id \in ids
    /\ data = New(page_id)
    /\ last = [op |-> "new", slot |-> 0, res |-> None,
               compacted |-> FALSE, shifted |-> FALSE]
    /\ stored = [s \in SlotIds |-> None]
    /\ panicked = FALSE
    /\ calls = 0
    /\ added = 0
    /\ iter = NoIter
    /\ loop = NoLoop

Init == InitOf(PageIds)

\* p.add_value(bytes)
AddValueOf(payloads, max_calls) ==
    /\ ~panicked
    /\ ~iter.active
    /\ ~loop.active
    /\ calls < max_calls
    /\ calls' = calls + 1
    /\ UNCHANGED <<page_id, iter, loop>>
    /\ \E bytes \in payloads :
        LET r == AddValue(data, bytes)
        IN  /\ data' = r.data
            /\ added' = IF IsSome(r.res) THEN added + 1 ELSE added
            /\ last' = [op |-> "add_value",
                        slot |-> IF IsSome(r.res) THEN Unwrap(r.res) ELSE 0,
                        res |-> r.res,
                        compacted |-> r.compacted, shifted |-> r.shifted]
            /\ stored' = IF IsSome(r.res)
                         THEN [stored EXCEPT ![Unwrap(r.res)] = Some(bytes)]
                         ELSE stored
            /\ panicked' = r.panic

DoAddValue == AddValueOf(Payloads(calls), MaxCalls)

\* p.delete_value(slot_id)
DeleteValueOf(max_calls) ==
    /\ ~panicked
    /\ ~iter.active
    /\ ~loop.active
    /\ calls < max_calls
    /\ calls' = calls + 1
    /\ UNCHANGED <<added, page_id, iter, loop>>
    /\ \E slot_id \in DeleteIds(data) :
        LET r == DeleteValue(data, slot_id)
        IN  /\ data' = r.data
            /\ last' = [op |-> "delete_value",
                        slot |-> slot_id, res |-> r.res,
                        compacted |-> FALSE, shifted |-> FALSE]
            /\ stored' = IF IsSome(r.res)
                         THEN [stored EXCEPT ![slot_id] = None]
                         ELSE stored
            /\ panicked' = FALSE

DoDeleteValue == DeleteValueOf(MaxCalls)

Next == DoAddValue \/ DoDeleteValue

Spec == Init /\ [][Next]_vars

\* let it = p.into_iter(): the page moves into the iterator, data is from
\* then on the page the iterator owns
DoIntoIter ==
    /\ ~panicked
    /\ ~iter.active
    /\ ~loop.active
    /\ LET it == IntoIter(data)
       IN  iter' = [active |-> TRUE, current_slot |-> it.current_slot,
                    num_slots |-> it.num_slots, items |-> <<>>,
                    done |-> FALSE, nexts |-> 0]
    /\ last' = [op |-> "into_iter", slot |-> 0, res |-> None,
                compacted |-> FALSE, shifted |-> FALSE]
    /\ UNCHANGED <<data, stored, panicked, calls, added, page_id, loop>>

\* it.next()
DoIterNext ==
    /\ iter.active
    /\ iter.nexts < MaxNexts
    /\ LET r == IterNext(data, iter)
       IN  /\ iter' = [active |-> TRUE,
                       current_slot |-> r.iter.current_slot,
                       num_slots |-> r.iter.num_slots,
                       items |-> IF IsSome(r.item)
                                 THEN Append(iter.items, Unwrap(r.item))
                                 ELSE iter.items,
                       done |-> ~IsSome(r.item),
                       nexts |-> iter.nexts + 1]
           /\ last' = [op |-> "next",
                       slot |-> IF IsSome(r.item) THEN Unwrap(r.item)[2] ELSE 0,
                       res |-> r.item,
                       compacted |-> FALSE, shifted |-> FALSE]
    /\ UNCHANGED <<data, stored, panicked, calls, added, page_id, loop>>

\* the page is filled by add_value and delete_value, then iterated
NextIter == Next \/ DoIntoIter \/ DoIterNext

SpecIter == Init /\ [][NextIter]_vars

\* let p = Page::from_bytes(*p.to_bytes())
DoFromBytes ==
    /\ ~panicked
    /\ ~iter.active
    /\ ~loop.active
    /\ data' = FromBytes(ToBytes([data |-> data])).data
    /\ last' = [op |-> "from_bytes", slot |-> 0, res |-> None,
                compacted |-> FALSE, shifted |-> FALSE]
    /\ calls < MaxCalls
    /\ calls' = calls + 1
    /\ UNCHANGED <<stored, panicked, added, page_id, iter, loop>>

\* let p = p.clone()
DoClone ==
    /\ ~panicked
    /\ ~iter.active
    /\ ~loop.active
    /\ data' = Clone([data |-> data]).data
    /\ last' = [op |-> "clone", slot |-> 0, res |-> None,
                compacted |-> FALSE, shifted |-> FALSE]
    /\ calls < MaxCalls
    /\ calls' = calls + 1
    /\ UNCHANGED <<stored, panicked, added, page_id, iter, loop>>

\* the calls on a page that is serialized, rebuilt and cloned along the way
NextSer == Next \/ DoFromBytes \/ DoClone

SpecSer == Init /\ [][NextSer]_vars

\* p.add_value(bytes) with a payload near the size limits
DoAddValueBig == AddValueOf(BigPayloads(calls), MaxCalls)

\* the calls on a page that is also offered payloads near the size limits
NextBig == Next \/ DoAddValueBig

SpecBig == Init /\ [][NextBig]_vars

\* the loop of hs_page_stress_test is entered with a payload that an empty
\* directory of the present size would take together with a new entry
DoLoopEnter ==
    /\ ~panicked
    /\ ~iter.active
    /\ ~loop.active
    /\ \E bytes \in Payloads(calls) :
          /\ Len(bytes) + 6 <= PAGE_SIZE - GetHeaderSize(data)
          /\ loop' = [active |-> TRUE, bytes |-> bytes,
                      live |-> Len(IterUsedSlots(data)), deleted |-> 0,
                      at |-> "try"]
    /\ UNCHANGED <<data, last, stored, panicked, calls, added, page_id, iter>>

\* stored_vals of the test: the payloads the test holds as stored, here in
\* slot id order
RECURSIVE StoredVals(_, _)
StoredVals(st, slot_id) ==
    IF slot_id > MaxSlots THEN <<>>
    ELSE (IF IsSome(st[slot_id]) THEN <<Unwrap(st[slot_id])>> ELSE <<>>)
             \o StoredVals(st, slot_id + 1)

\* check_vals of the test: p.clone().into_iter().map(|(a, _)| a).collect()
CheckVals(d) ==
    LET items == Collect(Clone(FromBytes(d)).data)
    IN  [i \in 1..Len(items) |-> items[i][1]]

\* compare_unordered_byte_vecs(a, b) of common::testutil: the two vectors
\* hold the same byte strings the same number of times, in any order
CompareUnorderedByteVecs(a, b) ==
    \A x \in {a} : \A y \in {b} :
        /\ Len(x) = Len(y)
        /\ \A i \in 1..Len(x) :
              Cardinality({j \in 1..Len(x) : x[j] = x[i]})
                  = Cardinality({j \in 1..Len(y) : y[j] = x[i]})

\* let try_slot = p.add_value(&bytes) and its match: on Some the test
\* records the payload, compares its stored_vals with the items of a clone
\* of the page and asserts they agree (the test panics when they do not),
\* then ends the loop; on None it goes on to delete
DoLoopTry ==
    /\ loop.active /\ loop.at = "try"
    /\ ~panicked
    /\ \E r \in {AddValue(data, loop.bytes)} :
       \E stored_after \in
               {IF IsSome(r.res)
                THEN [stored EXCEPT ![Unwrap(r.res)] = Some(loop.bytes)]
                ELSE stored} :
       \E assert_fails \in
               {/\ IsSome(r.res)
                /\ ~CompareUnorderedByteVecs(StoredVals(stored_after, 0),
                                             CheckVals(r.data))} :
           /\ data' = r.data
           /\ last' = [op |-> "add_value",
                       slot |-> IF IsSome(r.res) THEN Unwrap(r.res) ELSE 0,
                       res |-> r.res,
                       compacted |-> r.compacted, shifted |-> r.shifted]
           /\ stored' = stored_after
           /\ added' = IF IsSome(r.res) THEN added + 1 ELSE added
           /\ panicked' = (r.panic \/ assert_fails)
           /\ loop' = [loop EXCEPT !.at = IF r.panic \/ assert_fails
                                          THEN "try"
                                          ELSE IF IsSome(r.res) THEN "done"
                                          ELSE "delete"]
    /\ UNCHANGED <<calls, page_id, iter>>

\* p.delete_value(value_id_to_del) of one of the stored slots
DoLoopDelete ==
    /\ loop.active /\ loop.at = "delete"
    /\ \E slot_id \in {sid \in 0..(GetNumSlots(data) - 1) :
                                                   SlotIsValid(data, sid)} :
        LET r == DeleteValue(data, slot_id)
        IN  /\ data' = r.data
            /\ last' = [op |-> "delete_value",
                        slot |-> slot_id, res |-> r.res,
                        compacted |-> FALSE, shifted |-> FALSE]
            /\ stored' = IF IsSome(r.res)
                         THEN [stored EXCEPT ![slot_id] = None]
                         ELSE stored
    /\ loop' = [loop EXCEPT !.at = "try", !.deleted = loop.deleted + 1]
    /\ UNCHANGED <<panicked, calls, added, page_id, iter>>

\* the calls on a page that then goes through the loop
NextLoop == Next \/ DoLoopEnter \/ DoLoopTry \/ DoLoopDelete

SpecLoop == Init /\ [][NextLoop]_vars

\* longer runs of calls, with short payloads
DoAddValueShort == AddValueOf(ShortPayloads(calls), MaxShortCalls)

DoDeleteValueShort == DeleteValueOf(MaxShortCalls)

NextShort == DoAddValueShort \/ DoDeleteValueShort

SpecShort == Init /\ [][NextShort]_vars

\* let p = Page::new(x) for x among several page ids
InitIds == InitOf(NewPageIds)

\* the first MaxIdCalls calls on such a page
NextIds ==
    \/ calls < MaxIdCalls /\ DoAddValue
    \/ calls < MaxIdCalls /\ DoDeleteValue

SpecIds == InitIds /\ [][NextIds]_vars

\* ------------------------------------------------- reading the format
\* header and slot fields as the on-disk format lays them out
NumSlots == data[2] + 256 * data[3]
StoredFreeStart == data[4] + 256 * data[5]
BodyStart == 8 + 6 * NumSlots
InUse(s) == data[8 + 6 * s + 4]
Offset(s) == data[8 + 6 * s] + 256 * data[8 + 6 * s + 1]
Length(s) == data[8 + 6 * s + 2] + 256 * data[8 + 6 * s + 3]
Slots == 0..(NumSlots - 1)
LiveSlots == {s \in Slots : InUse(s) = 1}
FreeSlots == {s \in Slots : InUse(s) = 0}

RECURSIVE SumOver(_)
SumOver(S) ==
    IF S = {} THEN 0
    ELSE LET s == CHOOSE x \in S : TRUE IN Length(s) + SumOver(S \ {s})
\* total payload bytes of the live slots
LiveBytes == SumOver(LiveSlots)
\* directory bytes an insert needs: 6 for a new entry, 0 when a slot is reused
EntryCost == IF FreeSlots = {} THEN 6 ELSE 0

TypeOK ==
    /\ data \in [0..(PAGE_SIZE - 1) -> 0..255]
    /\ NumSlots <= MaxSlots
    /\ calls \in 0..MaxCalls \cup 0..MaxShortCalls

\* --------------------------------------------------------------- claims

\* C1: a payload stored by a successful add_value into slot s and not deleted
\* since is what get_value(s) returns, byte for byte, whatever happened to
\* other slots in between.
C1_RoundTrip ==
    \A s \in SlotIds : IsSome(stored[s]) => GetValue(data, s) = stored[s]

\* C2: a successful add_value returns the least slot id that is free or equal
\* to num_slots in the pre-call page, and right after a successful
\* delete_value(s) it returns a slot id <= s.
C2_LowestFreeSlot ==
    \A bytes \in Payloads(calls) :
        LET r == AddValue(data, bytes)
        IN  IsSome(r.res) =>
              /\ Unwrap(r.res) \in FreeSlots \cup {NumSlots}
              /\ \A j \in FreeSlots : Unwrap(r.res) <= j
              /\ (last.op = "delete_value" /\ IsSome(last.res)
                    => Unwrap(r.res) <= last.slot)

\* C2 witness: an insert has just reused a freed slot id below the last slot
C2_Witness ==
    /\ last.op = "add_value" /\ IsSome(last.res)
    /\ last.slot + 1 < NumSlots
    /\ FreeSlots # {}

\* C3: add_value succeeds whenever get_free_space() covers the payload plus
\* the directory entry it needs, even if the free bytes are holes.
C3_InsertCompleteness ==
    \A bytes \in Payloads(calls) :
        GetFreeSpace(data) >= Len(bytes) + EntryCost
            => IsSome(AddValue(data, bytes).res)

\* C4: add_value returns None whenever get_free_space() is below the payload
\* length plus the directory entry cost of the pre-call page.
C4_NoFit ==
    \A bytes \in Payloads(calls) :
        GetFreeSpace(data) < Len(bytes) + EntryCost
            => LET r == AddValue(data, bytes)
               IN  r.res = None /\ ~r.panic

\* C4 witness: an insert has just been refused for lack of space
C4_Witness ==
    /\ last.op = "add_value" /\ last.res = None /\ ~panicked
    /\ \E bytes \in Payloads(calls) : GetFreeSpace(data) < Len(bytes) + EntryCost
    /\ LiveSlots # {}

\* C5: an add_value call that returns None leaves every byte of the page as
\* it was before the call.
C5_FailedInsertAtomic ==
    \A bytes \in Payloads(calls) :
        LET r == AddValue(data, bytes)
        IN  (r.res = None /\ ~r.panic) => r.data = data

\* C5 witness: an insert has just returned None on a page that holds records
\* and holes
C5_Witness ==
    /\ last.op = "add_value" /\ last.res = None /\ ~panicked
    /\ LiveSlots # {} /\ FreeSlots # {}

\* C6: get_free_space() is exactly PAGE_SIZE minus the header size minus the
\* payload bytes of the live slots, and the header size is 8 + 6 * num_slots.
C6_Accounting ==
    /\ GetHeaderSize(data) = 8 + 6 * NumSlots
    /\ GetFreeSpace(data) = PAGE_SIZE - GetHeaderSize(data) - LiveBytes

\* C6 witness: a page with a live record and a deleted record of non-zero length
C6_Witness ==
    /\ \E s \in LiveSlots : Length(s) > 0
    /\ \E s \in FreeSlots : Length(s) > 0

\* C7: live payload ranges are pairwise disjoint and lie between the end of
\* the slot directory and the end of the page.
C7_DisjointBounds ==
    \A s \in LiveSlots :
        /\ Offset(s) >= BodyStart
        /\ Offset(s) + Length(s) <= PAGE_SIZE
        /\ \A t \in LiveSlots \ {s} :
              \/ Offset(s) + Length(s) <= Offset(t)
              \/ Offset(t) + Length(t) <= Offset(s)

\* C8: the free_start stored in the header lies between the end of the slot
\* directory and PAGE_SIZE after every call.
C8_FreeStartBounds ==
    BodyStart <= StoredFreeStart /\ StoredFreeStart <= PAGE_SIZE

\* C8 witness: an insert has just grown the directory over a non-empty body
C8_Witness ==
    /\ last.op = "add_value" /\ IsSome(last.res) /\ last.shifted
    /\ StoredFreeStart > BodyStart

\* C9: delete_value of a live slot succeeds, get_value of that slot is None
\* from then on until an add_value reuses the id, and every other live slot
\* reads the same bytes as before the delete.
C9_DeleteLive ==
    /\ \A s \in LiveSlots :
          LET r == DeleteValue(data, s)
          IN  /\ IsSome(r.res)
              /\ GetValue(r.data, s) = None
              /\ \A t \in LiveSlots \ {s} :
                    GetValue(r.data, t) = GetValue(data, t)
    /\ \A s \in SlotIds : stored[s] = None => GetValue(data, s) = None

\* C9 witness: a delete has just succeeded and another record is still live
C9_Witness ==
    /\ last.op = "delete_value" /\ IsSome(last.res)
    /\ InUse(last.slot) = 0
    /\ \E t \in LiveSlots : Length(t) > 0

\* C10: delete_value of an out-of-range or already free slot id returns None
\* and leaves every byte of the page unchanged.
C10_DeleteErrors ==
    \A s \in SlotIds :
        (s >= NumSlots \/ InUse(s) = 0)
            => DeleteValue(data, s) = [data |-> data, res |-> None]

\* C10 witness: a second delete of the same slot has just been refused
C10_Witness ==
    /\ last.op = "delete_value" /\ last.res = None
    /\ last.slot \in FreeSlots

\* C11: a successful delete_value(s) changes one byte of the page, the in_use
\* flag of slot s, which becomes free: num_slots, the stored free_start, every
\* offset and length (that of s included), every other flag and every body
\* byte stay; the header size stays and the free space grows by length(s).
C11_DeleteFrame ==
    \A s \in LiveSlots :
        LET r == DeleteValue(data, s)
            flag == 8 + 6 * s + 4
        IN  /\ IsSome(r.res)
            /\ r.data[flag] = 0
            /\ \A i \in 0..(PAGE_SIZE - 1) : i # flag => r.data[i] = data[i]
            /\ GetNumSlots(r.data) = NumSlots
            /\ GetFreeStart(r.data) = GetFreeStart(data)
            /\ GetSlotOffsetLength(r.data, s) = GetSlotOffsetLength(data, s)
            /\ GetHeaderSize(r.data) = GetHeaderSize(data)
            /\ GetFreeSpace(r.data) = GetFreeSpace(data) + Length(s)

\* C11 witness: a record of at least one byte has just been deleted and its
\* slot entry still carries its offset and length
C11_Witness ==
    /\ last.op = "delete_value" /\ IsSome(last.res)
    /\ InUse(last.slot) = 0
    /\ Length(last.slot) > 0 /\ Offset(last.slot) >= BodyStart
    /\ LiveSlots # {}

\* C12: get_value(s) is None exactly when s is out of range or slot s is
\* free; a live slot always reads Some(payload), its range never leaves the
\* page.
C12_ReadErrors ==
    /\ \A s \in SlotIds :
          (GetValue(data, s) = None) <=> (s >= NumSlots \/ InUse(s) = 0)
    /\ \A s \in LiveSlots : Offset(s) + Length(s) <= PAGE_SIZE

\* C13: an iterator run to its end has returned exactly one (payload,
\* slot_id) pair for each live slot of the page and none for a free slot, in
\* strictly ascending slot id order, each payload equal to get_value(slot_id).
C13_Iteration ==
    (iter.active /\ iter.done) =>
        LET items == iter.items
            n == Len(items)
        IN  /\ items = Collect(data)
            /\ {items[i][2] : i \in 1..n} = LiveSlots
            /\ \A i, j \in 1..n : i < j => items[i][2] < items[j][2]
            /\ \A i \in 1..n : GetValue(data, items[i][2]) = Some(items[i][1])

C15_DirectoryNeverShrinks ==
    /\ \A bytes \in Payloads(calls) :
          LET r == AddValue(data, bytes)
          IN  GetNumSlots(r.data) =
                  IF IsSome(r.res) /\ FreeSlots = {}
                  THEN NumSlots + 1 ELSE NumSlots
    /\ \A s \in SlotIds : GetNumSlots(DeleteValue(data, s).data) = NumSlots

\* C15 witness: an insert has just reused a slot of a directory of two or
\* more entries, one of them still free
C15_Witness ==
    /\ last.op = "add_value" /\ IsSome(last.res) /\ ~last.shifted
    /\ NumSlots >= 2 /\ last.slot < NumSlots - 1
    /\ FreeSlots # {}

\* C16: a successful add_value of len bytes that creates a directory entry
\* raises the header size by 6 and lowers the free space by len + 6; one that
\* reuses a free slot leaves the header size and lowers the free space by len.
C16_InsertDelta ==
    \A bytes \in Payloads(calls) :
        LET r == AddValue(data, bytes)
        IN  IsSome(r.res) =>
                /\ GetHeaderSize(r.data) = GetHeaderSize(data) + EntryCost
                /\ GetFreeSpace(r.data) + Len(bytes) + EntryCost
                       = GetFreeSpace(data)

\* C16 witness: a record of at least one byte has just been stored in a
\* reused slot, after a compaction
C16_Witness ==
    /\ last.op = "add_value" /\ IsSome(last.res) /\ ~last.shifted
    /\ last.compacted
    /\ Length(last.slot) > 0 /\ InUse(last.slot) = 1

\* C17: the directory has at most one entry per successful add_value, so after
\* k add_value calls the header size is at most 8 + 6k.
C17_HeaderBound ==
    /\ NumSlots <= added
    /\ added <= calls
    /\ GetHeaderSize(data) <= 8 + 6 * added

\* C17 witness: more inserts have succeeded than the directory has entries,
\* and an insert has just been refused
C17_Witness ==
    /\ last.op = "add_value" /\ last.res = None /\ ~panicked
    /\ NumSlots >= 1 /\ added > NumSlots

\* C18: for every page id x, Page::new(x) has page id x, no slots, header
\* size 8, free space PAGE_SIZE - 8, reads None for every slot id and iterates
\* over nothing; and a page made by new(x) still has page id x after any calls.
C18_EmptyPage ==
    /\ \A x \in NewPageIds \cup PageIds :
          LET p == New(x)
          IN  /\ GetPageId(p) = x
              /\ GetNumSlots(p) = 0
              /\ GetHeaderSize(p) = 8
              /\ GetFreeSpace(p) = PAGE_SIZE - 8
              /\ \A s \in SlotIds \cup {65535} : GetValue(p, s) = None
              /\ Collect(p) = <<>>
    /\ calls = 0 => data = New(page_id)
    /\ GetPageId(data) = page_id

\* C18 witness: a page made with an id of two non-zero bytes has taken two
\* inserts and a delete
C18_Witness ==
    /\ page_id = 1023
    /\ last.op = "delete_value" /\ IsSome(last.res)
    /\ \E s \in LiveSlots : Length(s) > 0

\* C19: add_value of the empty payload succeeds whenever a slot is free or
\* the free space is at least 6; it lowers the free space by the directory
\* entry only, its slot is live and reads Some(empty); and a stored empty
\* record keeps reading Some(empty) until it is deleted, whatever compactions
\* and body shifts happen in between.
C19_EmptyPayload ==
    /\ (FreeSlots # {} \/ GetFreeSpace(data) >= 6) =>
          LET r == AddValue(data, <<>>)
          IN  /\ IsSome(r.res)
              /\ GetFreeSpace(r.data) = GetFreeSpace(data) - EntryCost
              /\ GetSlotInUse(r.data, Unwrap(r.res)) = Some(SLOT_IN_USE_VALID)
              /\ GetValue(r.data, Unwrap(r.res)) = Some(<<>>)
    /\ \A s \in SlotIds :
          stored[s] = Some(<<>>) => GetValue(data, s) = Some(<<>>)

\* C20: on every page add_value of more than PAGE_SIZE bytes returns None and
\* changes nothing; on a page with no slots add_value of len bytes returns
\* Some(0) and stores the payload when len <= PAGE_SIZE - 14, and returns None
\* and changes nothing when len is larger.
C20_Oversize ==
    /\ \A l \in {PAGE_SIZE + 1, PAGE_SIZE + 2} :
          LET r == AddValue(data, Payload(calls, l))
          IN  r.res = None /\ r.data = data /\ ~r.panic
    /\ NumSlots = 0 =>
          \A l \in 0..(PAGE_SIZE + 1) :
              LET bytes == Payload(calls, l)
                  r == AddValue(data, bytes)
              IN  IF l <= PAGE_SIZE - 14
                  THEN r.res = Some(0) /\ GetValue(r.data, 0) = Some(bytes)
                  ELSE r.res = None /\ r.data = data /\ ~r.panic

\* C20 witness: a page with no slots has just refused a payload; every
\* payload of at most MaxLen bytes fits such a page, so it was one of
\* PAGE_SIZE - 13, PAGE_SIZE or PAGE_SIZE + 1 bytes
C20_Witness ==
    /\ last.op = "add_value" /\ last.res = None /\ ~panicked
    /\ NumSlots = 0 /\ data = New(page_id)
    /\ calls >= 1

\* ------------------------------------- reading the format of any buffer
\* the live slots of the buffer d and the fields of their entries
LiveOf(d) == {s \in 0..(GetNumSlots(d) - 1) : d[8 + 6 * s + 4] = 1}
OffsetOf(d, s) == d[8 + 6 * s] + 256 * d[8 + 6 * s + 1]
LengthOf(d, s) == d[8 + 6 * s + 2] + 256 * d[8 + 6 * s + 3]
StoredFreeStartOf(d) == d[4] + 256 * d[5]

\* the live payloads of d tile [8 + 6 * num_slots, stored free_start): every
\* live range lies in it and every byte of it belongs to exactly one of them
NoHoles(d) ==
    LET body_start == 8 + 6 * GetNumSlots(d)
        free_start == StoredFreeStartOf(d)
    IN  /\ free_start = body_start + SumLengths(IterUsedSlots(d))
        /\ \A s \in LiveOf(d) :
              /\ body_start <= OffsetOf(d, s)
              /\ OffsetOf(d, s) + LengthOf(d, s) <= free_start
        /\ \A pos \in body_start..(free_start - 1) :
              Cardinality({s \in LiveOf(d) :
                              /\ OffsetOf(d, s) <= pos
                              /\ pos < OffsetOf(d, s) + LengthOf(d, s)}) = 1

\* C21: an add_value call that runs compact, shifts the body or raises
\* num_slots goes on to return Some(slot_id); a call that returns None has
\* done none of the three.
C21_CompactOnlyOnSuccess ==
    \A bytes \in Payloads(calls) :
        LET r == AddValue(data, bytes)
        IN  /\ (r.compacted \/ r.shifted \/ GetNumSlots(r.data) # NumSlots)
                  => IsSome(r.res)
            /\ (r.res = None /\ ~r.panic) => (~r.compacted /\ ~r.shifted)

\* C22: add_value runs compact exactly when the payload passed the fit check
\* and PAGE_SIZE - (free_start + e) < len, with e = 6 for a new entry and 0
\* for a reused slot; when such a call returns, the page has no holes.
C22_CompactTrigger ==
    \A bytes \in Payloads(calls) :
        LET r == AddValue(data, bytes)
            len == Len(bytes)
            fits == GetFreeSpace(data) >= len + EntryCost
        IN  /\ r.compacted <=>
                  (fits /\ PAGE_SIZE - (GetFreeStart(data) + EntryCost) < len)
            /\ (r.compacted /\ IsSome(r.res)) =>
                  NoHoles(Compact(data)) /\ NoHoles(r.data)

\* the copy loop of compact over used = <<slot_id, offset, length>>*, sorted
\* by offset: every write position is at or left of the record it moves, and
\* the range it writes meets the range of no record still to be moved. When
\* strict is FALSE the write position of an empty record is left out: it has
\* no bytes to move, the sort may place it after a record that starts at its
\* offset, and its write position is then past its offset.
RECURSIVE LeftDirected(_, _, _)
LeftDirected(used, write_pos, strict) ==
    IF used = <<>> THEN TRUE
    ELSE LET x == Head(used)
             rest == Tail(used)
         IN  /\ (x[3] > 0 \/ strict) => write_pos <= x[2]
             /\ \A i \in 1..Len(rest) :
                   \/ write_pos + x[3] <= rest[i][2]
                   \/ rest[i][2] + rest[i][3] <= write_pos
                   \/ x[3] = 0 \/ rest[i][3] = 0
             /\ LeftDirected(rest, write_pos + x[3], strict)

\* C23: whenever add_value runs compact on a reachable page, compact runs to
\* its end, each record is copied to a position at or left of its offset
\* without touching a record not yet moved, and afterwards every live slot
\* has the length and the payload bytes it had, in the same physical order.
C23_CompactPreserves ==
    (\E bytes \in Payloads(calls) : AddValue(data, bytes).compacted) =>
        LET used == SortByOffset(CollectUsed(data, 0, NumSlots))
            c == Compact(data)
        IN  /\ LeftDirected(used, BodyStart, TRUE)
            /\ ~CompactPanics(data)
            /\ LiveOf(c) = LiveSlots
            /\ \A s \in LiveSlots :
                  /\ LengthOf(c, s) = Length(s)
                  /\ ToVec(c, OffsetOf(c, s), Length(s))
                         = ToVec(data, Offset(s), Length(s))
                  /\ GetValue(c, s) = GetValue(data, s)
            /\ \A s, t \in LiveSlots :
                  Offset(s) < Offset(t) => OffsetOf(c, s) <= OffsetOf(c, t)

\* C24 as claimed: compact is idempotent: on every reachable page on which
\* compact runs to its end, a second compact changes no byte of the buffer
\* (every live slot is already at its write position and free_start is
\* rewritten to the value it has): compact(compact(p)) = compact(p).
C24_CompactIdempotent ==
    ~CompactPanics(data) =>
        /\ ~CompactPanics(Compact(data))
        /\ Compact(Compact(data)) = Compact(data)

\* the bytes of d outside the offset field of the entries of empty live slots
OutsideEmptyOffsets(d) ==
    [i \in DOMAIN d |->
        IF \E s \in LiveOf(d) :
              LengthOf(d, s) = 0 /\ i \in {8 + 6 * s, 8 + 6 * s + 1}
        THEN 0 ELSE d[i]]

\* C24 amended: on every reachable page on which compact runs to its end, a
\* second compact runs to its end and changes no byte other than the stored
\* offset of empty live records: the body, every length and flag, num_slots,
\* free_start and the offset of every record of one byte or more stay, and
\* every live slot reads the same payload. (The stored offset of an empty
\* record may move again on each further compact.)
C24_IdempotentButEmptyOffsets ==
    ~CompactPanics(data) =>
        LET c == Compact(data)
        IN  /\ ~CompactPanics(c)
            /\ NoHoles(c)
            /\ LeftDirected(SortByOffset(CollectUsed(c, 0, GetNumSlots(c))),
                            8 + 6 * GetNumSlots(c), FALSE)
            /\ OutsideEmptyOffsets(Compact(Compact(data)))
                   = OutsideEmptyOffsets(Compact(data))
            /\ \A s \in LiveSlots :
                  GetValue(Compact(Compact(data)), s)
                      = GetValue(Compact(data), s)
            /\ NoHoles(Compact(Compact(data)))

\* C24 witness: a page with a hole on which compact moves a record of one
\* byte or more and a second compact then rewrites the offset of an empty one
C24_Witness ==
    /\ last.op = "delete_value" /\ IsSome(last.res)
    /\ ~CompactPanics(data)
    /\ \E s \in LiveSlots :
          Length(s) > 0 /\ OffsetOf(Compact(data), s) < Offset(s)
    /\ \E s \in LiveSlots :
          /\ Length(s) = 0
          /\ OffsetOf(Compact(Compact(data)), s) # OffsetOf(Compact(data), s)

\* C25: on a page with no slots add_value shifts no body and returns slot 0;
\* the payload is written at offset 14, past the new slot entry, not at the
\* stored free_start 8; the slot entry holds offset 14 and the length, the
\* stored free_start becomes 14 + len, and bytes 8..13 are the slot entry.
C25_FirstInsert ==
    NumSlots = 0 =>
        \A bytes \in Payloads(calls) :
            LET r == AddValue(data, bytes)
                len == Len(bytes)
            IN  /\ StoredFreeStart = 8
                /\ r.res = Some(0) /\ ~r.shifted
                /\ GetNumSlots(r.data) = 1
                /\ OffsetOf(r.data, 0) = 14 /\ LengthOf(r.data, 0) = len
                /\ StoredFreeStartOf(r.data) = 14 + len
                /\ ToVec(r.data, 14, len) = bytes
                /\ ToVec(r.data, 8, 6) = <<14, 0, len, 0, 1, 0>>

\* C25 witness: the first insert has just stored a record of at least one
\* byte in slot 0 of a directory that was empty
C25_Witness ==
    /\ last.op = "add_value" /\ last.res = Some(0) /\ ~last.shifted
    /\ added = 1 /\ NumSlots = 1
    /\ Offset(0) = 14 /\ Length(0) > 0
    /\ StoredFreeStart = 14 + Length(0)

\* C26: whenever add_value runs shift_body_for_new_slot on a reachable page,
\* free_start + 6 <= PAGE_SIZE at that point, so the min of shift_len and the
\* clamp of free_start + 6 change nothing: after the shift every live slot
\* has its offset raised by 6, its range inside the page and its payload
\* bytes as before.
C26_ShiftNeverTruncates ==
    \A bytes \in Payloads(calls) :
        LET r == AddValue(data, bytes)
        IN  r.shifted =>
              LET d1 == IF r.compacted THEN Compact(data) ELSE data
                  sh == ShiftBodyForNewSlot(d1)
                  free_start == GetFreeStart(d1)
                  body_len == SaturatingSub(free_start, BodyStart)
              IN  /\ free_start + 6 <= PAGE_SIZE
                  /\ Min(body_len, PAGE_SIZE - (BodyStart + 6)) = body_len
                  /\ StoredFreeStartOf(sh) = free_start + 6
                  /\ \A s \in LiveSlots :
                        /\ OffsetOf(sh, s) = OffsetOf(d1, s) + 6
                        /\ OffsetOf(sh, s) + LengthOf(sh, s) <= PAGE_SIZE
                        /\ LengthOf(sh, s) = LengthOf(d1, s)
                        /\ GetValue(sh, s) = GetValue(d1, s)
                        /\ IsSome(GetValue(sh, s))

\* C27: add_value needs a new directory entry exactly when no slot of the
\* directory is free; then the slot id is num_slots, and num_slots > 0 holds
\* exactly when a live record exists. The body shift runs only while every
\* slot is live.
C27_NewEntryOnlyWhenAllLive ==
    LET slot_id == FindLowestFreeSlotId(data)
        need_new_slot == NeedNewSlot(slot_id, GetNumSlots(data))
    IN  /\ need_new_slot <=> FreeSlots = {}
        /\ need_new_slot =>
              /\ slot_id = NumSlots
              /\ LiveSlots = Slots
              /\ (NumSlots > 0 <=> LiveSlots # {})
        /\ \A bytes \in Payloads(calls) :
              LET r == AddValue(data, bytes)
              IN  /\ r.shifted => (FreeSlots = {} /\ LiveSlots # {})
                  /\ GetNumSlots(r.data) # NumSlots => FreeSlots = {}

\* C27 witness: after a delete and a reuse of the freed slot, an insert has
\* just been given a new directory entry, with a body shift
C27_Witness ==
    /\ last.op = "add_value" /\ IsSome(last.res) /\ last.shifted
    /\ last.slot = NumSlots - 1
    /\ added > NumSlots
    /\ FreeSlots = {}

\* C28: every live slot ends at or before the stored free_start, so the bytes
\* from free_start on hold no live payload and a payload written at
\* free_start overwrites none.
C28_LiveBelowFreeStart ==
    \A s \in LiveSlots : Offset(s) + Length(s) <= StoredFreeStart

\* C29: the header and the live payloads together never exceed the page, so
\* neither saturating subtraction of get_free_space clamps; a page whose
\* records are all deleted reports PAGE_SIZE - 8 - 6 * num_slots, less than
\* the PAGE_SIZE - 8 of a fresh page once an insert has succeeded.
C29_NoSaturation ==
    /\ 8 + 6 * NumSlots + LiveBytes <= PAGE_SIZE
    /\ GetHeaderSize(data) <= PAGE_SIZE
    /\ SumLengths(IterUsedSlots(data)) <= PAGE_SIZE - GetHeaderSize(data)
    /\ LiveSlots = {} => GetFreeSpace(data) = PAGE_SIZE - 8 - 6 * NumSlots
    /\ added > 0 => (NumSlots > 0 /\ GetFreeSpace(data) < PAGE_SIZE - 8)

\* C29 witness: every record of a directory of two or more entries has been
\* deleted, the last one just now
C29_Witness ==
    /\ last.op = "delete_value" /\ IsSome(last.res)
    /\ LiveSlots = {} /\ NumSlots >= 2
    /\ \E s \in Slots : Length(s) > 0


\* C30: in the loop "add_value(b); on None delete a live record and retry",
\* entered on any reachable page with len(b) + 6 <= PAGE_SIZE - header size,
\* no add_value panics, a live record exists whenever add_value has returned
\* None, and the deletions never outnumber the records live at the start: the
\* loop ends with a successful add_value after at most that many deletions.
C30_DeleteUntilFits ==
    loop.active =>
        /\ ~panicked
        /\ loop.at = "delete" => LiveSlots # {}
        /\ loop.deleted <= loop.live
        /\ loop.at = "try" =>
              LET r == AddValue(data, loop.bytes)
              IN  /\ ~r.panic
                  /\ (r.res = None => LiveSlots # {})

\* C31: an iterator made of a page with n slot entries has returned at most
\* n items, each with a slot id below n and no slot id twice; once n + 1
\* calls to next have been made the latest one returned None; and after a
\* call that returned None the next call returns None and leaves the
\* iterator as it is.
C31_IteratorFinite ==
    iter.active =>
        LET items == iter.items
            k == Len(items)
            n == GetNumSlots(data)
        IN  /\ iter.num_slots = n
            /\ k <= n
            /\ k <= iter.nexts
            /\ \A i \in 1..k : items[i][2] \in 0..(n - 1)
            /\ \A i, j \in 1..k : i # j => items[i][2] # items[j][2]
            /\ iter.nexts >= n + 1 => iter.done
            /\ iter.done =>
                  /\ IterNext(data, iter).item = None
                  /\ IterNext(data, iter).iter.current_slot = iter.current_slot

\* next has returned two items, skipped a free slot, returned None and been
\* called again after that
C31_Witness ==
    /\ iter.active
    /\ iter.done
    /\ last.op = "next"
    /\ Len(iter.items) >= 2
    /\ iter.num_slots > Len(iter.items)
    /\ iter.nexts > Len(iter.items) + 1

\* the two-byte fields of page d hold values of at most PAGE_SIZE: num_slots,
\* free_start, and the offset and length of every directory entry
FieldsWithin(d) ==
    /\ GetNumSlots(d) <= PAGE_SIZE
    /\ StoredFreeStartOf(d) <= PAGE_SIZE
    /\ \A s \in 0..(GetNumSlots(d) - 1) :
          OffsetOf(d, s) <= PAGE_SIZE /\ LengthOf(d, s) <= PAGE_SIZE

\* C32: every value cast to u16 and written into a two-byte field is at most
\* PAGE_SIZE: the fields of the page after every call, and for every
\* add_value that can follow, the fields compact writes, offset + 6 of every
\* live slot when the body shifts, num_slots + 1, the insert offset, the
\* payload length, the new free_start and the slot id returned.
C32_NoTruncation ==
    /\ FieldsWithin(data)
    /\ ~panicked =>
          \A bytes \in Payloads(calls) :
              LET value_len == Len(bytes)
                  slot_id == FindLowestFreeSlotId(data)
                  num_slots == GetNumSlots(data)
                  need_new_slot == NeedNewSlot(slot_id, num_slots)
                  extra_header == ExtraHeader(need_new_slot)
                  compacts == NeedsCompact(GetFreeStart(data), extra_header,
                                           value_len)
                  d1 == IF compacts THEN Compact(data) ELSE data
                  r == AddValue(data, bytes)
              IN  (~NoFit(data, value_len, extra_header) /\ ~r.panic) =>
                      /\ FieldsWithin(d1)
                      /\ (need_new_slot /\ num_slots > 0) =>
                            \A s \in LiveOf(d1) :
                                OffsetOf(d1, s) + BYTES_PER_SLOT_META
                                    <= PAGE_SIZE
                      /\ need_new_slot => num_slots + 1 <= PAGE_SIZE
                      /\ FieldsWithin(r.data)
                      /\ IsSome(r.res) => Unwrap(r.res) <= PAGE_SIZE

====
